---- MODULE Spec2Model ----
(***************************************************************************)
(* A model of fair_equivalence_graphs/core.py: the perturbation builder    *)
(* (get_perturbations), the scenario composer and simulator adapter        *)
(* (run_fair), the forcing comparator (compare_rf) and the equivalence     *)
(* solver (get_equivalence_ratio, a call of scipy.optimize.bisect).        *)
(*                                                                         *)
(* Arrays live in a heap of numbered objects so that aliasing and in-place *)
(* writes (storage[yr_idx] += ...) are visible.  Array entries of the      *)
(* pipeline are exact rationals <<n, d>>; the float64 rounding of the      *)
(* perturbation values is modelled bit by bit in the second part           *)
(* (SpecFloat).                                                            *)
(***************************************************************************)
EXTENDS Integers, Sequences, FiniteSets

VARIABLES heap, params, pert, ret, memo, ncalls, budget,
          pc, xa, xb, dm, fa, fb, xm, iter, funcalls,
          fin, fout

vars == <<heap, params, pert, ret, memo, ncalls, budget,
          pc, xa, xb, dm, fa, fb, xm, iter, funcalls, fin, fout>>

(***************************************************************************)
(* Bounds of the model.                                                    *)
(***************************************************************************)
NYears == 4
FirstYear == 2020
MaxCalls == 2
TolBits == 2

(***************************************************************************)
(* Exact rational arithmetic: <<n, d>> with d > 0 and gcd(n, d) = 1.      *)
(***************************************************************************)
Abs(i) == IF i < 0 THEN -i ELSE i

RECURSIVE GCD(_, _)
GCD(a, b) == IF b = 0 THEN a ELSE GCD(b, a % b)

RECURSIVE Pow2(_)
Pow2(k) == IF k = 0 THEN 1 ELSE 2 * Pow2(k - 1)

Rat(n, d) ==
    LET g == GCD(Abs(n), Abs(d))
        s == IF d < 0 THEN -1 ELSE 1
    IN <<(s * n) \div g, (s * d) \div g>>

R(i) == <<i, 1>>
Zero == <<0, 1>>

RAdd(p, q) ==
    LET g == GCD(p[2], q[2])
    IN Rat(p[1] * (q[2] \div g) + q[1] * (p[2] \div g), (p[2] \div g) * q[2])

RNeg(p) == <<-p[1], p[2]>>
RSub(p, q) == RAdd(p, RNeg(q))

RMul(p, q) ==
    LET g1 == GCD(Abs(p[1]), q[2])
        g2 == GCD(Abs(q[1]), p[2])
    IN IF p[1] = 0 \/ q[1] = 0 THEN Zero
       ELSE <<(p[1] \div g1) * (q[1] \div g2), (p[2] \div g2) * (q[2] \div g1)>>

RInv(p) == IF p[1] < 0 THEN <<-p[2], -p[1]>> ELSE <<p[2], p[1]>>

RLt(p, q) ==
    LET g == GCD(p[2], q[2])
    IN p[1] * (q[2] \div g) < q[1] * (p[2] \div g)

RLe(p, q) == p = q \/ RLt(p, q)
RAbs(p) == <<Abs(p[1]), p[2]>>
Sign(p) == IF p[1] > 0 THEN 1 ELSE IF p[1] < 0 THEN -1 ELSE 0

(***************************************************************************)
(* numpy arrays as heap objects.  A heap is a sequence of arrays; an       *)
(* object's id is its position.  Indices are 0-based as in the source.     *)
(***************************************************************************)
None == <<>>

\* an array given entry by entry, as the tuple of its entries
ndarray(f) == f \o <<>>

Alloc(h, arr) == [h |-> Append(h, ndarray(arr)), id |-> Len(h) + 1]

\* np.zeros_like(a): a NEW array of a's length, all zero
zeros_like(h, id) == Alloc(h, [i \in 1..Len(h[id]) |-> Zero])

\* a += b: the sum written into a itself
np_add_in_place(h, a, b) ==
    [h |-> [h EXCEPT ![a] = ndarray([i \in 1..Len(h[a]) |-> RAdd(h[a][i], h[b][i])])],
     id |-> a]

\* a + b on arrays of one length: a NEW array, element-wise
np_add(h, a, b) == Alloc(h, [i \in 1..Len(h[a]) |-> RAdd(h[a][i], h[b][i])])

\* copy.copy(a): a NEW array with a's entries
copy_copy(h, a) == Alloc(h, h[a])

\* np.where(a == v)[0]: the 0-based positions of v in a, ascending
RECURSIVE np_where(_, _, _)
np_where(arr, v, i) ==
    IF i > Len(arr) THEN <<>>
    ELSE IF arr[i] = v THEN <<i - 1>> \o np_where(arr, v, i + 1)
    ELSE np_where(arr, v, i + 1)

\* Python's a[i]: valid for -len <= i < len, a negative i counts from the end
IndexOk(n, i) == -n <= i /\ i < n
PyIndex(n, i) == IF i < 0 THEN i + n ELSE i

\* a[i] += v with an index past the end clipped to the last entry
iadd_clipped(h, id, i, v) ==
    IF i < -Len(h[id]) THEN [h |-> h, err |-> "IndexError"]
    ELSE [h |-> [h EXCEPT ![id][IF i >= Len(h[id]) THEN Len(h[id])
                               ELSE PyIndex(Len(h[id]), i) + 1] = RAdd(@, v)],
          err |-> "none"]

\* a[i] += v, in place
iadd(h, id, i, v) ==
    IF ~IndexOk(Len(h[id]), i) THEN [h |-> h, err |-> "IndexError"]
    ELSE [h |-> [h EXCEPT ![id][PyIndex(Len(h[id]), i) + 1] = RAdd(@, v)],
          err |-> "none"]

(***************************************************************************)
(* The caller's scenario: scenario.Emissions.{year, co2, co2_fossil,      *)
(* co2_land} are the first four objects of the heap.                       *)
(***************************************************************************)
scenario == [year |-> 1, co2 |-> 2, co2_fossil |-> 3, co2_land |-> 4]
ScenarioIds == {1, 2, 3, 4}

Years == [i \in 1..NYears |-> FirstYear + i - 1]

Flat == [co2_fossil |-> [i \in 1..NYears |-> R(2)], co2_land |-> [i \in 1..NYears |-> R(1)]]
Rising == [co2_fossil |-> [i \in 1..NYears |-> R(i)], co2_land |-> [i \in 1..NYears |-> R(1)]]

ScenarioHeap(b) ==
    << Years,
       [i \in 1..NYears |-> RAdd(b.co2_fossil[i], b.co2_land[i])],
       b.co2_fossil,
       b.co2_land >>

(***************************************************************************)
(* get_perturbations (core.py 45-55).  Returns the heap after the call,    *)
(* the error raised ("none" when it returns) and the three array ids.      *)
(***************************************************************************)
get_perturbations(h, scen, temp_yr, temp_length, temp_magnitude, equivalence_ratio) ==
    LET w == np_where(h[scen.year], temp_yr, 1)
    IN IF Len(w) = 0 THEN [h |-> h, err |-> "IndexError", val |-> None]
       ELSE
       LET yr_idx == w[1]
           a1 == zeros_like(h, scen.co2)
           a2 == zeros_like(a1.h, scen.co2)
           a3 == zeros_like(a2.h, scen.co2)
           storage == a1.id
           reemission == a2.id
           justified == a3.id
           s1 == iadd(a3.h, storage, yr_idx, RMul(R(-1), temp_magnitude))
           s2 == iadd(s1.h, reemission, yr_idx + temp_length, temp_magnitude)
       IN IF s1.err # "none" THEN [h |-> s1.h, err |-> s1.err, val |-> None]
          ELSE IF s2.err # "none" THEN [h |-> s2.h, err |-> s2.err, val |-> None]
          ELSE IF equivalence_ratio[1] = 0
               THEN [h |-> s2.h, err |-> "ZeroDivisionError", val |-> None]
          ELSE LET s3 == iadd(s2.h, justified, yr_idx,
                              RMul(temp_magnitude, RInv(equivalence_ratio)))
               IN IF s3.err # "none" THEN [h |-> s3.h, err |-> s3.err, val |-> None]
                  ELSE [h |-> s3.h, err |-> "none",
                        val |-> <<storage, reemission, justified>>]

(***************************************************************************)
(* The external simulator, fair.forward.fair_scm(emissions, other_rf,      *)
(* useMultigas=False, gir_carbon_cycle=False): a deterministic function    *)
(* of the emissions series returning (C, F, T), three new arrays of the    *)
(* emissions' length, or raising.  It is opaque to the core; the model     *)
(* takes it from a small family: a linear impulse response with kernel     *)
(* sim.kernel (concentration above pre-industrial = kernel * emissions,    *)
(* forcing = that excess + other_rf, temperature = the forcing lagged by   *)
(* one year) that rejects a series holding an entry strictly between       *)
(* sim.lo and sim.hi.                                                      *)
(***************************************************************************)
PreIndustrial == 278

RECURSIVE Conv(_, _, _, _)
Conv(kernel, e, i, j) ==
    IF j > i THEN Zero
    ELSE RAdd(RMul(R(kernel[i - j + 1]), e[j]), Conv(kernel, e, i, j + 1))

Kernel(k1, k2) == [i \in 1..NYears |-> IF i = 1 THEN k1 ELSE IF i = 2 THEN k2 ELSE 1]

\* accepts every series
Steady == [kernel |-> Kernel(1, 1), lo |-> Zero, hi |-> Zero]
Decaying == [kernel |-> Kernel(2, 1), lo |-> Zero, hi |-> Zero]
\* rejects a negative emission
Strict == [kernel |-> Kernel(1, 1), lo |-> R(-1000), hi |-> Zero]
\* fails on a narrow band of values
Fragile == [kernel |-> Kernel(1, 1), lo |-> Rat(1201, 600), hi |-> Rat(801, 400)]
\* the comparator of the instance (first year, 1, 1, 2) is zero at 500.5 / at 1000
RootAtMid == [kernel |-> Kernel(999, 2), lo |-> Zero, hi |-> Zero]
RootAtEnd == [kernel |-> Kernel(999, 1), lo |-> Zero, hi |-> Zero]

Rejects(sim, e) == \E i \in 1..Len(e) : RLt(sim.lo, e[i]) /\ RLt(e[i], sim.hi)

\* the three arrays C, F, T, the last three objects of the heap left by t
Outputs(t) == [h |-> t.h, err |-> "none", val |-> <<t.id - 2, t.id - 1, t.id>>]

\* C, F and T from the excess concentration and the forcing F
Respond(h, excess, F) ==
    Outputs(Alloc(Alloc(Alloc(h, [i \in 1..Len(excess) |->
                                      RAdd(R(PreIndustrial), excess[i])]).h,
                        F).h,
                  [i \in 1..Len(F) |-> IF i = 1 THEN Zero ELSE F[i - 1]]))

Forced(h, excess, other) ==
    Respond(h, excess, ndarray([i \in 1..Len(excess) |-> RAdd(excess[i], other[i])]))

fair_scm(h, emissions, other_rf, sim) ==
    IF Rejects(sim, h[emissions])
    THEN [h |-> h, err |-> "SimulationError", val |-> None]
    ELSE Forced(h, ndarray([i \in 1..Len(h[emissions]) |->
                               Conv(sim.kernel, h[emissions], i, 1)]),
                h[other_rf])

(***************************************************************************)
(* run_fair (core.py 103-129).                                             *)
(***************************************************************************)
Labels == <<"default", "permanent", "temporary", "offset", "justified">>
LabelSet == {Labels[i] : i \in 1..Len(Labels)}

\* lines 115-123: the simulator on emissions, other_rf the zeros array z
Simulate(z, emissions, sim) == fair_scm(z.h, emissions, z.id, sim)

\* the for loop of lines 114-127, from the k-th item of experimental_scenarios
\* on; Store is lines 125-127 for the simulator's output r
RECURSIVE SimulateAll(_, _, _, _, _)
RECURSIVE Store(_, _, _, _, _)
Store(r, experimental_scenarios, fair_results, sim, k) ==
    IF r.err # "none" THEN [h |-> r.h, err |-> r.err, val |-> fair_results]
    ELSE SimulateAll(r.h, experimental_scenarios,
             [l \in DOMAIN fair_results \cup {Labels[k]} |->
                 IF l = Labels[k]
                 THEN [atm_c |-> r.val[1], rf |-> r.val[2], temp |-> r.val[3]]
                 ELSE fair_results[l]],
             sim, k + 1)

SimulateAll(h, experimental_scenarios, fair_results, sim, k) ==
    IF k > Len(Labels) THEN [h |-> h, err |-> "none", val |-> fair_results]
    ELSE Store(Simulate(zeros_like(h, experimental_scenarios[Labels[k]]),
                        experimental_scenarios[Labels[k]], sim),
               experimental_scenarios, fair_results, sim, k)

\* what run_fair returns once the loop is through (fr), or its error
Composed(fr, experimental_scenarios) ==
    IF fr.err # "none" THEN [h |-> fr.h, err |-> fr.err, val |-> None]
    ELSE [h |-> fr.h, err |-> "none", val |-> <<experimental_scenarios, fr.val>>]

\* copy.copy(src) + b and x + b, on the heap left by the step before (x)
copy_of(x, src) == copy_copy(x.h, src)
add_to(x, b) == np_add(x.h, x.id, b)

\* lines 106-129 with the justified emissions left out of the offset series
Experiments_offset_without_justified(d, storage, reemission, justified, sim) ==
    LET default_emissions == d.id
        permanent == add_to(copy_of(d, default_emissions), storage)
        temporary == add_to(add_to(copy_of(permanent, default_emissions), storage),
                            reemission)
        offset == add_to(add_to(copy_of(temporary, default_emissions), storage),
                         reemission)
        justified_ == add_to(copy_of(offset, default_emissions), justified)
        experimental_scenarios ==
            [l \in LabelSet |->
                CASE l = "default" -> default_emissions
                  [] l = "permanent" -> permanent.id
                  [] l = "temporary" -> temporary.id
                  [] l = "offset" -> offset.id
                  [] l = "justified" -> justified_.id]
    IN Composed(SimulateAll(justified_.h, experimental_scenarios, [l \in {} |-> None],
                            sim, 1),
                experimental_scenarios)

\* lines 106-129, for the default_emissions array d of line 104
Experiments(d, storage, reemission, justified, sim) ==
    LET default_emissions == d.id
        permanent == add_to(copy_of(d, default_emissions), storage)
        temporary == add_to(add_to(copy_of(permanent, default_emissions), storage),
                            reemission)
        offset == add_to(add_to(add_to(copy_of(temporary, default_emissions), storage),
                                reemission), justified)
        justified_ == add_to(copy_of(offset, default_emissions), justified)
        experimental_scenarios ==
            [l \in LabelSet |->
                CASE l = "default" -> default_emissions
                  [] l = "permanent" -> permanent.id
                  [] l = "temporary" -> temporary.id
                  [] l = "offset" -> offset.id
                  [] l = "justified" -> justified_.id]
    IN Composed(SimulateAll(justified_.h, experimental_scenarios, [l \in {} |-> None],
                            sim, 1),
                experimental_scenarios)

run_fair(h, scen, storage, reemission, justified, sim) ==
    Experiments(np_add(h, scen.co2_land, scen.co2_fossil), storage, reemission,
                justified, sim)

(***************************************************************************)
(* compare_rf (core.py 161-170).                                           *)
(***************************************************************************)
Min(a, b) == IF a < b THEN a ELSE b
Max(a, b) == IF a > b THEN a ELSE b

\* the stop of the slice a[start : stop] on an array of length n
SliceStop(n, stop) == IF stop < 0 THEN Max(stop + n, 0) ELSE Min(stop, n)

\* sum(a[start : stop]) for a start in 0..n, added left to right
RECURSIVE SumFrom(_, _, _)
SumFrom(arr, i, stop) ==
    IF i >= stop THEN Zero ELSE RAdd(arr[i + 1], SumFrom(arr, i + 1, stop))

\* the window closed on the right: the entry at stop is summed too
SliceSum_closed(arr, start, stop) ==
    SumFrom(arr, start, IF stop = -1 THEN Len(arr) ELSE SliceStop(Len(arr), stop + 1))

SliceSum(arr, start, stop) == SumFrom(arr, start, SliceStop(Len(arr), stop))

\* lines 166-170, on what run_fair returned (r)
Difference(r, scen, temp_yr, time_horizon) ==
    IF r.err # "none" THEN [h |-> r.h, err |-> r.err, val |-> None]
    ELSE
    LET fair_results == r.val[2]
        yr_idx == np_where(r.h[scen.year], temp_yr, 1)[1]
        rf_d == SliceSum(r.h[fair_results["default"].rf], yr_idx, yr_idx + time_horizon)
        rf_o == SliceSum(r.h[fair_results["offset"].rf], yr_idx, yr_idx + time_horizon)
        diff == RSub(rf_d, rf_o)
    IN [h |-> r.h, err |-> "none", val |-> <<diff>>]

\* lines 164-170, on what get_perturbations returned (p)
Evaluate(p, scen, temp_yr, time_horizon, sim) ==
    IF p.err # "none" THEN [h |-> p.h, err |-> p.err, val |-> None]
    ELSE Difference(run_fair(p.h, scen, p.val[1], p.val[2], p.val[3], sim),
                    scen, temp_yr, time_horizon)

compare_rf(h, equivalence_ratio, scen, temp_yr, temp_length, temp_magnitude, time_horizon, sim) ==
    Evaluate(get_perturbations(h, scen, temp_yr, temp_length, temp_magnitude,
                               equivalence_ratio),
             scen, temp_yr, time_horizon, sim)

(***************************************************************************)
(* scipy.optimize.bisect(f, a, b) with its defaults, as called on line     *)
(* 200: xtol = 2e-12, rtol = 4 * eps, maxiter = 100, disp = True.  The     *)
(* tolerances are scaled to the model's grid: xtol = 2 * 2^-TolBits and    *)
(* the test's abs_tol = xtol / 2 (1e-12 against 2e-12); rtol keeps its     *)
(* proportion to xtol (8.88e-16 / 2e-12 = 1 / RTolInv).                    *)
(***************************************************************************)
XLo == 1
XHi == 1000
MaxIter == 100
RTolInv == 2252

XTol == Rat(2, Pow2(TolBits))
AbsTol == Rat(1, Pow2(TolBits))
RTol == Rat(2, RTolInv * Pow2(TolBits))

\* the loop's test with the halving applied once more than the code applies it
Converged_one_halving_early(d, x) ==
    RLt(RAbs(RMul(d, <<1, 2>>)), RAdd(XTol, RMul(RTol, RAbs(x))))

\* the half without the sign change
Advance_wrong_half(fm, f0, x, a) == IF Sign(fm) * Sign(f0) >= 0 THEN a ELSE x

\* fabs(dm) < xtol + rtol * fabs(xm)
Converged(d, x) == RLt(RAbs(d), RAdd(XTol, RMul(RTol, RAbs(x))))

\* if (fm * fa >= 0) xa = xm
Advance(fm, f0, x, a) == IF Sign(fm) * Sign(f0) >= 0 THEN x ELSE a

\* only the product test fa * fb > 0, no return of an endpoint
Precheck_product_only(f0, f1) ==
    IF Sign(f0) * Sign(f1) > 0 THEN "ValueError" ELSE "loop"

\* an upper endpoint handed back where the signs agree
Precheck_returns_boundary(f0, f1) ==
    IF Sign(f0) = 0 THEN "xa"
    ELSE IF Sign(f1) = 0 \/ Sign(f0) = Sign(f1) THEN "xb"
    ELSE "loop"

\* the tests before the loop: if (fa == 0) return xa; if (fb == 0) return xb;
\* if (signbit(fa) == signbit(fb)) error (ValueError: f(a) and f(b) must have
\* different signs)
Precheck(f0, f1) ==
    IF Sign(f0) = 0 THEN "xa"
    ELSE IF Sign(f1) = 0 THEN "xb"
    ELSE IF Sign(f0) = Sign(f1) THEN "ValueError"
    ELSE "loop"

(***************************************************************************)
(* What a call leaves with its caller: the value it returned, or the       *)
(* exception that came out of it.  No function of core.py has a try: an    *)
(* exception raised below a call leaves through it unchanged.              *)
(***************************************************************************)
Idle == [op |-> "none", status |-> "none", err |-> "none", val |-> None, arg |-> None]
Returned(op, v, a) ==
    [op |-> op, status |-> "returned", err |-> "none", val |-> v, arg |-> a]
Raised(op, e, a) ==
    [op |-> op, status |-> "raised", err |-> e, val |-> None, arg |-> a]
Outcome(op, r, a) ==
    IF r.err = "none" THEN Returned(op, r.val, a) ELSE Raised(op, r.err, a)

\* the exception swallowed and the lower end of the bracket handed back
Propagate_swallowed(e) == Returned("get_equivalence_ratio", <<R(XLo)>>, None)

\* an exception raised by the comparator inside optimize.bisect
Propagate(e) == Raised("get_equivalence_ratio", e, None)

(***************************************************************************)
(* The state machine: a caller holding one scenario and one problem        *)
(* instance (params) calls the four functions, budget calls in any order.  *)
(* The caller keeps the scenario (heap objects 1-4) and the perturbation   *)
(* triple it last got or built (pert); a call's other objects are dropped  *)
(* when the next call starts.                                              *)
(***************************************************************************)
TempYears == {FirstYear, FirstYear + 1, FirstYear + NYears - 1, FirstYear + NYears}
TempLengths == {-(NYears + 1), -1, 0, 1, NYears}
TempMagnitudes == {R(0), R(1), R(10)}
TimeHorizons == {-(NYears + 1), -1, 0, 2, NYears + 1}
Ratios == {R(0), R(1), R(2)}

\* the (scenario, simulator) pairs the caller runs with
Worlds ==
    { [baseline |-> Flat, sim |-> Steady],
      [baseline |-> Rising, sim |-> Decaying],
      [baseline |-> Flat, sim |-> Strict],
      [baseline |-> Flat, sim |-> Fragile] }

RECURSIVE MaxOf(_)
MaxOf(seq) == IF Len(seq) = 0 THEN 0 ELSE Max(seq[1], MaxOf(Tail(seq)))

\* the objects the caller still holds: the scenario and its triple
Top(p) == Max(4, MaxOf(p))
Keep(h, p) == SubSeq(h, 1, Top(p))

Compare(h, x) ==
    compare_rf(h, x, scenario, params.temp_yr, params.temp_length,
               params.temp_magnitude, params.time_horizon, params.sim)

\* arrays the caller built itself, for run_fair on more than single pulses
CallerTriples ==
    { << [i \in 1..NYears |-> R(-i)], [i \in 1..NYears |-> R(i - 1)],
         [i \in 1..NYears |-> Rat(1, i + 1)] >>,
      << [i \in 1..NYears |-> R(1)], [i \in 1..NYears |-> R(-2)],
         [i \in 1..NYears |-> R(i)] >> }

Instance(yr, len, mag, hor, sim) ==
    [temp_yr |-> yr, temp_length |-> len, temp_magnitude |-> mag,
     time_horizon |-> hor, sim |-> sim]

InitCore ==
    /\ ret = Idle
    /\ memo = {}
    /\ ncalls = 0
    /\ pc = "idle"
    /\ xa = None /\ xb = None /\ dm = None /\ fa = None /\ fb = None /\ xm = None
    /\ iter = 0 /\ funcalls = 0

\* every problem instance, one call
InitWide ==
    /\ \E w \in Worlds, yr \in TempYears, len \in TempLengths,
          mag \in TempMagnitudes, hor \in TimeHorizons :
          /\ heap = ScenarioHeap(w.baseline)
          /\ params = Instance(yr, len, mag, hor, w.sim)
    /\ pert = None
    /\ budget = 1

\* one instance, the caller's own arrays, one call
InitTriples ==
    /\ \E w \in Worlds, t \in CallerTriples :
          /\ heap = ScenarioHeap(w.baseline) \o t
          /\ params = Instance(FirstYear, 1, R(1), 2, w.sim)
    /\ pert = <<5, 6, 7>>
    /\ budget = 1

\* simulators whose comparator has a zero on the bisection grid, one call
InitExact ==
    /\ \E sim \in {RootAtMid, RootAtEnd} :
          /\ heap = ScenarioHeap(Flat)
          /\ params = Instance(FirstYear, 1, R(1), 2, sim)
    /\ pert = None
    /\ budget = 1

\* a few instances, MaxCalls calls in any order
InitSeq ==
    /\ \E w \in Worlds, mag \in {R(1), R(10)} :
          /\ heap = ScenarioHeap(w.baseline)
          /\ params = Instance(FirstYear, 1, mag, 2, w.sim)
    /\ pert = None
    /\ budget = MaxCalls

Init ==
    /\ InitWide \/ InitTriples \/ InitExact \/ InitSeq
    /\ InitCore
    /\ fin = None /\ fout = None

solver == <<pc, xa, xb, dm, fa, fb, xm, iter, funcalls>>
float == <<fin, fout>>

\* the caller takes what get_perturbations left (r)
GotPerturbations(r, ratio) ==
    /\ ret' = Outcome("get_perturbations", r, ratio)
    /\ pert' = r.val
    /\ heap' = Keep(r.h, r.val)

CallGetPerturbations(ratio) ==
    /\ pc = "idle" /\ ncalls < budget
    /\ GotPerturbations(get_perturbations(Keep(heap, None), scenario, params.temp_yr,
                                          params.temp_length, params.temp_magnitude,
                                          ratio),
                        ratio)
    /\ ncalls' = ncalls + 1
    /\ UNCHANGED <<params, budget, memo, solver, float>>

\* the caller takes what run_fair left (r)
RanFair(r) ==
    /\ ret' = Outcome("run_fair", r, None)
    /\ heap' = IF r.err = "none" THEN r.h ELSE Keep(r.h, pert)

CallRunFair ==
    /\ pc = "idle" /\ ncalls < budget
    /\ pert # None
    /\ RanFair(run_fair(Keep(heap, pert), scenario, pert[1], pert[2], pert[3],
                        params.sim))
    /\ ncalls' = ncalls + 1
    /\ UNCHANGED <<params, budget, pert, memo, solver, float>>

\* one evaluation of the comparator at x has left r
Evaluated(x, r) ==
    /\ heap' = Keep(r.h, pert)
    /\ memo' = memo \cup {<<x, r.err, r.val>>}

\* the caller takes what compare_rf left (r)
Compared(r, ratio) ==
    /\ Evaluated(ratio, r)
    /\ ret' = Outcome("compare_rf", r, ratio)

CallCompareRf(ratio) ==
    /\ pc = "idle" /\ ncalls < budget
    /\ Compared(Compare(Keep(heap, pert), ratio), ratio)
    /\ ncalls' = ncalls + 1
    /\ UNCHANGED <<params, budget, pert, solver, float>>

(***************************************************************************)
(* get_equivalence_ratio (core.py 200-205): optimize.bisect(compare_rf, 1, *)
(* 1000, args).  The call blocks its caller; the model steps through it    *)
(* one comparator evaluation at a time.                                    *)
(***************************************************************************)
get_equivalence_ratio ==
    /\ pc = "idle" /\ ncalls < budget
    /\ pc' = "fa"
    /\ xa' = R(XLo) /\ xb' = R(XHi)
    /\ dm' = None /\ fa' = None /\ fb' = None /\ xm' = None
    /\ iter' = 0 /\ funcalls' = 0
    /\ ret' = [op |-> "get_equivalence_ratio", status |-> "running",
               err |-> "none", val |-> None, arg |-> None]
    /\ heap' = Keep(heap, pert)
    /\ ncalls' = ncalls + 1
    /\ UNCHANGED <<params, budget, pert, memo, float>>

Finish(outcome) ==
    /\ pc' = "idle"
    /\ ret' = outcome

Return(x) == Finish(Returned("get_equivalence_ratio", <<x>>, None))

\* fa = (*f)(xa), the evaluation having left r
EvaluatedA(r) ==
    /\ Evaluated(xa, r)
    /\ funcalls' = funcalls + 1
    /\ IF r.err # "none"
       THEN Finish(Propagate(r.err)) /\ fa' = fa
       ELSE pc' = "fb" /\ fa' = r.val[1] /\ ret' = ret

BisectEvalA ==
    /\ pc = "fa"
    /\ EvaluatedA(Compare(heap, xa))
    /\ UNCHANGED <<params, budget, pert, ncalls, xa, xb, dm, fb, xm, iter, float>>

\* the tests before the loop have decided c
Decided(c) ==
    CASE c = "xa" -> Return(xa) /\ dm' = dm
      [] c = "xb" -> Return(xb) /\ dm' = dm
      [] c = "ValueError" -> Finish(Propagate("ValueError")) /\ dm' = dm
      [] c = "loop" -> pc' = "loop" /\ dm' = RSub(xb, xa) /\ ret' = ret

\* fb = (*f)(xb), the evaluation having left r, then the tests before the loop
EvaluatedB(r) ==
    /\ Evaluated(xb, r)
    /\ funcalls' = funcalls + 1
    /\ IF r.err # "none"
       THEN Finish(Propagate(r.err)) /\ fb' = fb /\ dm' = dm
       ELSE fb' = r.val[1] /\ Decided(Precheck(fa, r.val[1]))

BisectEvalB ==
    /\ pc = "fb"
    /\ EvaluatedB(Compare(heap, xb))
    /\ UNCHANGED <<params, budget, pert, ncalls, xa, xb, fa, xm, iter, float>>

\* fm = (*f)(xm), the evaluation having left r, to the end of the loop body
EvaluatedM(d, x, r) ==
    /\ iter' = iter + 1
    /\ dm' = d
    /\ xm' = x
    /\ Evaluated(x, r)
    /\ funcalls' = funcalls + 1
    /\ IF r.err # "none"
       THEN Finish(Propagate(r.err)) /\ xa' = xa
       ELSE /\ xa' = Advance(r.val[1], fa, x, xa)
            /\ IF Sign(r.val[1]) = 0 \/ Converged(d, x)
               THEN Return(x)
               ELSE pc' = "loop" /\ ret' = ret

\* xm = xa + dm
Midpoint(d) == EvaluatedM(d, RAdd(xa, d), Compare(heap, RAdd(xa, d)))

\* one pass of for (i = 0; i < iter; i++) { dm *= .5; ... }
BisectIter ==
    /\ pc = "loop"
    /\ IF iter >= MaxIter
       THEN /\ Finish(Propagate("RuntimeError"))
            /\ UNCHANGED <<heap, memo, funcalls, iter, dm, xm, xa>>
       ELSE Midpoint(RMul(dm, <<1, 2>>))
    /\ UNCHANGED <<params, budget, pert, ncalls, xb, fa, fb, float>>

Next ==
    \/ \E ratio \in Ratios : CallGetPerturbations(ratio)
    \/ CallRunFair
    \/ \E ratio \in Ratios : CallCompareRf(ratio)
    \/ get_equivalence_ratio
    \/ BisectEvalA
    \/ BisectEvalB
    \/ BisectIter

Spec == Init /\ [][Next]_vars

(***************************************************************************)
(* Second part: the values get_perturbations writes, in IEEE-754 binary64  *)
(* (numpy's float64, the dtype of scenario.Emissions.co2 and so of the     *)
(* three arrays).  A positive float is [e |-> exponent, m |-> Prec bits,   *)
(* most significant first and equal to 1], of value 1.m[2]m[3]... * 2^e;   *)
(* neg marks the sign.  Magnitudes and ratios are small positive integers, *)
(* which float64 holds exactly; every operation rounds to nearest, ties to *)
(* even.                                                                   *)
(***************************************************************************)
Prec == 53

FZero == [neg |-> FALSE, e |-> 0, m |-> <<>>]

\* bits + 1, most significant bit first; carry is 1 when every bit was 1
RECURSIVE Increment(_, _)
Increment(bits, k) ==
    IF k = 0 THEN [bits |-> bits, carry |-> 1]
    ELSE IF bits[k] = 0 THEN [bits |-> [bits EXCEPT ![k] = 1], carry |-> 0]
    ELSE Increment([bits EXCEPT ![k] = 0], k - 1)

\* round Prec bits by the guard bit below them and the sticky rest
Round(bits, guard, sticky, e) ==
    IF guard = 1 /\ (sticky \/ bits[Prec] = 1)
    THEN LET up == Increment(bits, Prec)
         IN IF up.carry = 1
            THEN [neg |-> FALSE, e |-> e + 1, m |-> [i \in 1..Prec |-> IF i = 1 THEN 1 ELSE 0]]
            ELSE [neg |-> FALSE, e |-> e, m |-> up.bits]
    ELSE [neg |-> FALSE, e |-> e, m |-> bits]

\* the next k bits of rem / d, for 0 <= rem < d, and the remainder left
RECURSIVE LongDiv(_, _, _, _)
LongDiv(rem, d, k, acc) ==
    IF k = 0 THEN [bits |-> acc, rem |-> rem]
    ELSE IF 2 * rem >= d THEN LongDiv(2 * rem - d, d, k - 1, Append(acc, 1))
    ELSE LongDiv(2 * rem, d, k - 1, Append(acc, 0))

\* the e with 2^e <= a / b < 2^(e + 1)
RECURSIVE Log2Up(_, _, _)
Log2Up(a, b, e) == IF 2 * b <= a THEN Log2Up(a, 2 * b, e + 1) ELSE e
RECURSIVE Log2Down(_, _, _)
Log2Down(a, b, e) == IF a < b THEN Log2Down(2 * a, b, e - 1) ELSE e
Log2(a, b) == IF a >= b THEN Log2Up(a, b, 0) ELSE Log2Down(a, b, 0)

\* a / b for positive integers a and b, correctly rounded
FDivInt(a, b) ==
    LET e == Log2(a, b)
        n == IF e < 0 THEN a * Pow2(-e) ELSE a
        d == IF e > 0 THEN b * Pow2(e) ELSE b
        q == LongDiv(n - d, d, Prec, <<>>)
    IN Round(<<1>> \o SubSeq(q.bits, 1, Prec - 1), q.bits[Prec], q.rem # 0, e)

\* the integer n as a float (exact for the magnitudes of the model)
FInt(n) ==
    IF n = 0 THEN FZero
    ELSE [FDivInt(Abs(n), 1) EXCEPT !.neg = (n < 0)]

\* bits * k for an integer k >= 1, as bits, most significant first
RECURSIVE TimesInt(_, _, _, _, _)
TimesInt(bits, k, i, carry, acc) ==
    IF carry = 0 /\ i = 0 THEN acc
    ELSE LET t == (IF i = 0 THEN 0 ELSE bits[i] * k) + carry
         IN TimesInt(bits, k, IF i = 0 THEN 0 ELSE i - 1, t \div 2, <<t % 2>> \o acc)

RECURSIVE AnyOne(_, _)
AnyOne(bits, i) == i <= Len(bits) /\ (bits[i] = 1 \/ AnyOne(bits, i + 1))

\* k * x for an integer k >= 1 and a positive float x, correctly rounded
FMulInt(k, x) ==
    LET p == TimesInt(x.m, k, Prec, 0, <<>>)
        e == x.e + (Len(p) - Prec)
    IN Round(SubSeq(p, 1, Prec), IF Len(p) > Prec THEN p[Prec + 1] ELSE 0,
             AnyOne(p, Prec + 2), e)

FNeg(x) == IF x = FZero THEN FZero ELSE [x EXCEPT !.neg = ~x.neg]

\* a[i] += v on an entry that holds 0.0: the sum is v
f64_iadd(arr, i, v) == [arr EXCEPT ![i + 1] = v]

\* get_perturbations (core.py 45-55) on float64 values, for an index
\* yr_idx + temp_length inside the arrays
get_perturbations_f64(year, temp_yr, temp_length, temp_magnitude, equivalence_ratio) ==
    LET yr_idx == np_where(year, temp_yr, 1)[1]
        zeros == [i \in 1..Len(year) |-> FZero]
        storage == f64_iadd(zeros, yr_idx, FNeg(FInt(temp_magnitude)))
        reemission == f64_iadd(zeros, yr_idx + temp_length, FInt(temp_magnitude))
        justified == f64_iadd(zeros, yr_idx,
                              FMulInt(temp_magnitude, FDivInt(1, equivalence_ratio)))
    IN <<storage, reemission, justified>>

(***************************************************************************)
(* SpecFloat: get_perturbations on float64 values, for every valid input   *)
(* of a small grid: temp_yr on the year axis, temp_length >= 0 with        *)
(* yr_idx + temp_length inside the series, integer magnitudes and ratios.  *)
(***************************************************************************)
MaxRatio == 6
FloatMagnitudes == {1, 3, 10}

InitFloat ==
    /\ heap = ScenarioHeap(Flat)
    /\ params = Instance(FirstYear, 0, Zero, 0, Steady)
    /\ pert = None
    /\ budget = 0
    /\ InitCore
    /\ \E i \in 0..(NYears - 1), len \in 0..(NYears - 1),
          mag \in FloatMagnitudes, ratio \in 1..MaxRatio :
          /\ i + len < NYears
          /\ fin = [temp_yr |-> FirstYear + i, temp_length |-> len,
                    temp_magnitude |-> mag, equivalence_ratio |-> ratio]
    /\ fout = None

CallGetPerturbationsF64 ==
    /\ fout = None
    /\ fout' = get_perturbations_f64(heap[scenario.year], fin.temp_yr, fin.temp_length,
                                     fin.temp_magnitude, fin.equivalence_ratio)
    /\ UNCHANGED <<heap, params, pert, ret, memo, ncalls, budget, solver, fin>>

NextFloat == CallGetPerturbationsF64

SpecFloat == InitFloat /\ [][NextFloat]_vars

(***************************************************************************)
(* The claims.                                                             *)
(***************************************************************************)
Pulse(n, at, v, zero) == [i \in 1..n |-> IF i = at + 1 THEN v ELSE zero]

\* C1: for a temp_yr on the year axis, a temp_length >= 0 with
\* index(temp_yr) + temp_length inside the series, a magnitude and a positive
\* ratio, get_perturbations returns three arrays of the scenario's length:
\* storage is -temp_magnitude at index(temp_yr), reemission is +temp_magnitude
\* at index(temp_yr) + temp_length, justified is temp_magnitude /
\* equivalence_ratio (the float64 quotient) at index(temp_yr), and every other
\* entry is zero.
C1_PerturbationsAsSpecified ==
    fout # None =>
        LET n == Len(heap[scenario.co2])
            idx == fin.temp_yr - heap[scenario.year][1]
        IN /\ fout[1] = Pulse(n, idx, FNeg(FInt(fin.temp_magnitude)), FZero)
           /\ fout[2] = Pulse(n, idx + fin.temp_length, FInt(fin.temp_magnitude), FZero)
           /\ fout[3] = Pulse(n, idx, FDivInt(fin.temp_magnitude, fin.equivalence_ratio),
                              FZero)

EmissionsOf(label) == heap[ret.val[1][label]]
Plus(a, b) == [i \in 1..Len(a) |-> RAdd(a[i], b[i])]

\* the simulator's output for the emissions series of a label, computed anew
Simulated(label) ==
    LET z == zeros_like(heap, ret.val[1][label])
        r == fair_scm(z.h, ret.val[1][label], z.id, params.sim)
    IN [atm_c |-> r.h[r.val[1]], rf |-> r.h[r.val[2]], temp |-> r.h[r.val[3]]]

RunFairReturned == ret.op = "run_fair" /\ ret.status = "returned"

\* C2: run_fair returns two mappings with the key set {default, permanent,
\* temporary, offset, justified}; element-wise default = co2_fossil +
\* co2_land, permanent = default + storage, temporary = default + storage +
\* reemission, offset = default + storage + reemission + justified, justified
\* = default + justified; each result entry is the simulator's output for the
\* emissions series of the same label.
C2_RunFairComposition ==
    RunFairReturned =>
        LET default == Plus(heap[scenario.co2_fossil], heap[scenario.co2_land])
            storage == heap[pert[1]]
            reemission == heap[pert[2]]
            justified == heap[pert[3]]
        IN /\ DOMAIN ret.val[1] = LabelSet
           /\ DOMAIN ret.val[2] = LabelSet
           /\ EmissionsOf("default") = default
           /\ EmissionsOf("permanent") = Plus(default, storage)
           /\ EmissionsOf("temporary") = Plus(Plus(default, storage), reemission)
           /\ EmissionsOf("offset") =
                  Plus(Plus(Plus(default, storage), reemission), justified)
           /\ EmissionsOf("justified") = Plus(default, justified)
           /\ \A l \in LabelSet :
                  /\ DOMAIN ret.val[2][l] = {"atm_c", "rf", "temp"}
                  /\ heap[ret.val[2][l].atm_c] = Simulated(l).atm_c
                  /\ heap[ret.val[2][l].rf] = Simulated(l).rf
                  /\ heap[ret.val[2][l].temp] = Simulated(l).temp

\* run_fair has returned on three arrays that are nonzero in every year
C2_Witness ==
    /\ RunFairReturned
    /\ \A k \in 1..3 : \A i \in 1..NYears : heap[pert[k]][i] # Zero
    /\ EmissionsOf("offset") # EmissionsOf("temporary")

Solved == ret.op = "get_equivalence_ratio" /\ ret.status = "returned"
Failed == ret.op = "get_equivalence_ratio" /\ ret.status = "raised"

\* the comparator of the caller's instance at ratio x, evaluated anew
ComparatorAt(x) == Compare(Keep(heap, pert), x)
ValueAt(x) == ComparatorAt(x).val[1]
ZeroAt(x) == ComparatorAt(x).err = "none" /\ Sign(ValueAt(x)) = 0

\* C3 as claimed: for a returned ratio r*, the comparator at r* (default
\* minus offset cumulative forcing over the window) is zero within the
\* absolute tolerance: r* is a root, not merely a point of a narrow interval.
C3_RoundTripWithinTolerance ==
    Solved => /\ ComparatorAt(ret.val[1]).err = "none"
              /\ RLe(RAbs(ValueAt(ret.val[1])), AbsTol)

\* C3 as amended: a returned ratio r* is an exact zero of the comparator, or
\* an end of an interval [lo, hi] inside [1, 1000] of width below xtol + rtol
\* * |r*| at whose ends the comparator has opposite signs; the comparator's
\* value at r* is not bounded by the tolerance.
C3_ReturnedRatioBracketsRoot ==
    Solved =>
        \/ ZeroAt(ret.val[1])
        \/ LET lo == xa
               hi == RAdd(xa, dm)
           IN /\ iter >= 1
              /\ ret.val[1] \in {lo, hi}
              /\ RLe(R(XLo), lo) /\ RLt(lo, hi) /\ RLe(hi, R(XHi))
              /\ RLt(RSub(hi, lo), RAdd(XTol, RMul(RTol, RAbs(ret.val[1]))))
              /\ Sign(ValueAt(lo)) * Sign(ValueAt(hi)) = -1

\* a ratio returned by the interval test whose comparator value is beyond the
\* tolerance
C3_Witness ==
    /\ Solved
    /\ iter >= 1
    /\ params.temp_length = 1 /\ params.time_horizon = 2
    /\ RLt(AbsTol, RAbs(ValueAt(ret.val[1])))

\* C4 as claimed: a returned ratio is strictly between 1 and 1000, never a
\* bracket endpoint, also when the comparator is zero at an endpoint.
C4_StrictlyInsideBracket ==
    Solved => RLt(R(XLo), ret.val[1]) /\ RLt(ret.val[1], R(XHi))

\* C4 as amended: a returned ratio lies in [1, 1000]; it is 1 exactly when
\* the comparator is zero at 1, and 1000 exactly when the comparator is
\* nonzero at 1 and zero at 1000.
C4_InsideBracketOrEndpointRoot ==
    Solved =>
        /\ RLe(R(XLo), ret.val[1]) /\ RLe(ret.val[1], R(XHi))
        /\ (ret.val[1] = R(XLo)) <=> ZeroAt(R(XLo))
        /\ (ret.val[1] = R(XHi)) <=> (~ZeroAt(R(XLo)) /\ ZeroAt(R(XHi)))

\* the upper endpoint returned for a comparator that is zero there
C4_Witness == Solved /\ ret.val[1] = R(XHi) /\ ValueAt(R(XLo)) # Zero

SameSignAtEnds ==
    /\ ComparatorAt(R(XLo)).err = "none"
    /\ ComparatorAt(R(XHi)).err = "none"
    /\ Sign(ValueAt(R(XLo))) * Sign(ValueAt(R(XHi))) = 1

\* C5: if the comparator has the same sign at ratio 1 and at ratio 1000,
\* get_equivalence_ratio fails with the bracket error (ValueError), which
\* reaches the caller; it returns no ratio, and it fails after the two
\* endpoint evaluations, before any midpoint is evaluated.
C5_SameSignRaises ==
    (ret.op = "get_equivalence_ratio" /\ SameSignAtEnds) =>
        /\ pc # "loop"
        /\ iter = 0 /\ xm = None
        /\ pc = "idle" => /\ ret = Raised("get_equivalence_ratio", "ValueError", None)
                          /\ funcalls = 2

\* the solver has failed on a comparator that is negative at both ends
C5_Witness ==
    /\ Failed /\ pc = "idle"
    /\ SameSignAtEnds
    /\ Sign(ValueAt(R(XLo))) = -1

GetPerturbationsDone == ret.op = "get_perturbations"
OnAxis(yr) == \E i \in 1..Len(heap[scenario.year]) : heap[scenario.year][i] = yr
IndexOf(yr) == yr - heap[scenario.year][1]
SeriesLen == Len(heap[scenario.co2])
LastYear == heap[scenario.year][SeriesLen]

\* C6 as claimed: get_perturbations with temp_yr the first or the last year
\* of the axis and a nonzero temp_length (and a positive ratio) raises a
\* bounds error and returns no arrays.
C6_BoundaryYearRaises ==
    (/\ GetPerturbationsDone
     /\ params.temp_yr \in {heap[scenario.year][1], LastYear}
     /\ params.temp_length # 0
     /\ ret.arg[1] > 0) =>
        ret = Raised("get_perturbations", "IndexError", ret.arg) /\ pert = None

\* C6 as amended: for temp_yr on the axis and a positive ratio,
\* get_perturbations raises IndexError and returns no arrays exactly when j =
\* index(temp_yr) + temp_length lies outside [-n, n), n the series length: for
\* the last year every positive temp_length raises, for the first year only a
\* temp_length of n or more.  Inside that range it returns, the re-emission
\* pulse at index j when j >= 0 (never clipped) and at n + j, counted from the
\* end, when j < 0.
C6_RaisesExactlyOutOfRange ==
    (GetPerturbationsDone /\ OnAxis(params.temp_yr) /\ ret.arg[1] > 0) =>
        LET n == SeriesLen
            j == IndexOf(params.temp_yr) + params.temp_length
        IN IF -n <= j /\ j < n
           THEN /\ ret.status = "returned"
                /\ pert = ret.val
                /\ heap[ret.val[2]] =
                       Pulse(n, IF j >= 0 THEN j ELSE n + j, params.temp_magnitude, Zero)
           ELSE /\ ret = Raised("get_perturbations", "IndexError", ret.arg)
                /\ pert = None

\* the first year with a temp_length of 1: the arrays are returned
C6_Witness ==
    /\ GetPerturbationsDone /\ ret.status = "returned"
    /\ params.temp_yr = heap[scenario.year][1]
    /\ params.temp_length = 1
    /\ params.temp_magnitude # Zero
    /\ heap[ret.val[2]][2] = params.temp_magnitude

CompareRfReturned == ret.op = "compare_rf" /\ ret.status = "returned"

\* the radiative forcing series of a label for the trial ratio of the call
ForcingOf(label) ==
    LET p == get_perturbations(Keep(heap, pert), scenario, params.temp_yr,
                               params.temp_length, params.temp_magnitude, ret.arg)
        r == run_fair(p.h, scenario, p.val[1], p.val[2], p.val[3], params.sim)
    IN r.h[r.val[2][label].rf]

\* the sum of the entries of arr at the 0-based indices i with from <= i < to
RECURSIVE WindowSum(_, _, _)
WindowSum(arr, from, to) ==
    IF from >= to THEN Zero
    ELSE RAdd(WindowSum(arr, from, to - 1), arr[to])

\* C7 as claimed: compare_rf returns the default series' forcing minus the
\* offset series' forcing, both summed over the indices i with index(temp_yr)
\* <= i < min(index(temp_yr) + time_horizon, series length); a window that
\* runs past the array end is truncated there and no error is raised.
C7_WindowToMinOfStopAndLength ==
    CompareRfReturned =>
        LET idx == IndexOf(params.temp_yr)
            stop == Min(idx + params.time_horizon, SeriesLen)
        IN ret.val[1] = RSub(WindowSum(ForcingOf("default"), idx, stop),
                             WindowSum(ForcingOf("offset"), idx, stop))

\* C7 as amended: as claimed for index(temp_yr) + time_horizon >= 0; when
\* that stop is negative (a negative time_horizon) the slice counts it from
\* the array end and the window is index(temp_yr) <= i < max(series length +
\* index(temp_yr) + time_horizon, 0).  No window raises an error.
C7_WindowBySliceSemantics ==
    CompareRfReturned =>
        LET idx == IndexOf(params.temp_yr)
            end == idx + params.time_horizon
            stop == IF end >= 0 THEN Min(end, SeriesLen) ELSE Max(SeriesLen + end, 0)
        IN ret.val[1] = RSub(WindowSum(ForcingOf("default"), idx, stop),
                             WindowSum(ForcingOf("offset"), idx, stop))

\* a window that runs past the array end, on series that differ inside it
C7_Witness ==
    /\ CompareRfReturned
    /\ IndexOf(params.temp_yr) + params.time_horizon > SeriesLen
    /\ ret.val[1] # Zero

Evaluating == pc \in {"fa", "fb", "loop"} /\ ~(pc = "loop" /\ iter >= MaxIter)

\* the ratio the solver evaluates next
Trial ==
    IF pc = "fa" THEN xa
    ELSE IF pc = "fb" THEN xb
    ELSE RAdd(xa, RMul(dm, <<1, 2>>))

\* the step is a call of compare_rf by the caller
CompareRfStep == pc = "idle" /\ ncalls' = ncalls + 1 /\ ret'.op = "compare_rf"

\* what each layer below compare_rf does for the trial ratio x
PerturbationsFor(x) ==
    get_perturbations(Keep(heap, pert), scenario, params.temp_yr, params.temp_length,
                      params.temp_magnitude, x)
RunFor(x) ==
    run_fair(PerturbationsFor(x).h, scenario, PerturbationsFor(x).val[1],
             PerturbationsFor(x).val[2], PerturbationsFor(x).val[3], params.sim)
LayerError(x) ==
    IF PerturbationsFor(x).err # "none" THEN PerturbationsFor(x).err ELSE RunFor(x).err

FailsWith(op, e, a) ==
    /\ ret'.op = op /\ ret'.status = "raised" /\ ret'.err = e
    /\ ret'.val = None /\ ret'.arg = a

\* C8: a failure raised inside an evaluation (temp_yr absent from the axis,
\* re-emission index out of bounds, zero ratio, simulator rejection) leaves
\* compare_rf unchanged, and leaves get_equivalence_ratio unchanged: the solver
\* ends at that evaluation with the same error, evaluates nothing again and
\* returns no ratio.
C8_FailuresPropagate ==
    [][ /\ (CompareRfStep /\ LayerError(ret'.arg) # "none") =>
               FailsWith("compare_rf", LayerError(ret'.arg), ret'.arg)
        /\ (Evaluating /\ LayerError(Trial) # "none") =>
               /\ FailsWith("get_equivalence_ratio", LayerError(Trial), None)
               /\ pc' = "idle"
               /\ funcalls' = funcalls + 1
        /\ (Failed /\ pc = "idle") => (funcalls' = funcalls \/ pc' = "fa")
      ]_vars

\* the solver has failed at a midpoint on the simulator's rejection
C8_Witness ==
    /\ Failed /\ pc = "idle"
    /\ ret.err = "SimulationError"
    /\ iter >= 1
    /\ funcalls = iter + 2

BracketHolds ==
    /\ RLe(R(XLo), xa) /\ RLe(RAdd(xa, dm), R(XHi))
    /\ dm = Rat(XHi - XLo, Pow2(iter))
    /\ Sign(ValueAt(xa)) * Sign(ValueAt(RAdd(xa, dm))) = -1

HalvingStep ==
    (pc = "loop" /\ iter < MaxIter) =>
        /\ funcalls' = funcalls + 1
        /\ Cardinality(memo' \ memo) <= 1
        /\ xm' = RAdd(xa, RMul(dm, <<1, 2>>))
        /\ \E m \in memo' : m[1] = xm'
        /\ dm' = RMul(dm, <<1, 2>>)
        /\ (ComparatorAt(xm').err = "none" /\ pc' = "loop") =>
               xa' = (IF Sign(ValueAt(xm')) = Sign(ValueAt(xa)) THEN xm' ELSE xa)

EndpointStep ==
    /\ pc = "fa" => (funcalls' = 1 /\ \E m \in memo' : m[1] = R(XLo))
    /\ pc = "fb" => (funcalls' = 2 /\ \E m \in memo' : m[1] = R(XHi))

\* C9: the comparator is evaluated one call at a time; after the endpoint
\* evaluations at 1 and 1000 every trial ratio is the midpoint of the current
\* bracket and the next bracket is the half chosen by the sign of that
\* evaluation; at every step the bracket lies inside [1, 1000] with comparator
\* values of opposite sign at its ends, and its width halves on each step.
C9_BisectionSteps ==
    /\ [](pc = "loop" => BracketHolds)
    /\ [][EndpointStep /\ HalvingStep]_vars

\* a bracket that has moved at both ends
C9_Witness ==
    /\ pc = "loop" /\ iter >= 4
    /\ xa # R(XLo) /\ RAdd(xa, dm) # R(XHi)

ScenarioUnchanged == \A i \in ScenarioIds : heap'[i] = heap[i]

RunFairStep == pc = "idle" /\ ncalls' = ncalls + 1 /\ ret'.op = "run_fair"

\* the ids of the arrays a call returned
ReturnedIds ==
    IF ret.status # "returned" THEN {}
    ELSE IF ret.op = "get_perturbations" THEN {ret.val[k] : k \in 1..3}
    ELSE IF ret.op = "run_fair"
         THEN {ret.val[1][l] : l \in LabelSet}
              \cup UNION {{ret.val[2][l].atm_c, ret.val[2][l].rf, ret.val[2][l].temp} :
                          l \in LabelSet}
    ELSE {}

\* every evaluation of compare_rf so far at one ratio had one outcome
Repeatable == \A a \in memo, b \in memo : a[1] = b[1] => a = b

\* C10: no call and no sequence of calls changes the caller's scenario (year,
\* co2, co2_fossil, co2_land) or the arrays passed to run_fair; the arrays a
\* call returns are new objects, none the scenario's own; and compare_rf
\* called again with the same arguments returns the same value whatever ran
\* in between.
C10_InputsUntouched ==
    /\ [][ScenarioUnchanged]_vars
    /\ [][RunFairStep => (pert' = pert /\ \A k \in 1..3 : heap'[pert[k]] = heap[pert[k]])]_vars
    /\ [](ReturnedIds \cap ScenarioIds = {})
    /\ [](RunFairReturned =>
              /\ ReturnedIds \cap {pert[k] : k \in 1..3} = {}
              /\ Cardinality(ReturnedIds) = 4 * Len(Labels))
    /\ []((GetPerturbationsDone /\ ret.status = "returned") =>
              Cardinality(ReturnedIds) = 3)
    /\ []Repeatable

\* compare_rf has returned at a ratio the solver evaluated before it
C10_Witness ==
    /\ ncalls = 2
    /\ CompareRfReturned
    /\ Cardinality(memo) > 2
    /\ \E m \in memo : m[1] = ret.arg /\ m[3] = ret.val

====
